---- MODULE Spec2Model ----
(***************************************************************************)
(* State-machine model of the ITA_Platform institute management system:    *)
(* enrollments, payments, certificates and course prices, with the         *)
(* validation each save runs and the uniqueness constraints of the store.  *)
(*                                                                         *)
(* Dates are sampled calendar positions 0..MaxDay, each thirteen months    *)
(* after the previous one (2025-01, 2026-02, 2027-03, ...), so two         *)
(* different dates differ in both year and month.  Money is counted in     *)
(* whole units.                                                            *)
(***************************************************************************)
EXTENDS Integers, Sequences, FiniteSets, TLC

\* ------------------------------------------------------------------ bounds
MaxDay == 1
MaxPrice == 2
MaxPayments == 2

Days == 0..MaxDay
Amounts == 0..MaxPrice
\* the accounts: two students and one member of staff
Students == {"s1", "s2"}
\* the application server's two workers
Workers == {"w1", "w2"}

\* ------------------------------------------------------- program constants
NoDate == -1
EmptyCode == 0
\* verified_by is null
NoUser == "none"

\* the accounts: the students and one member of staff
StaffUser == "staff"
Users == Students \cup {StaffUser}

\* the course catalogue
Courses == {"python"}
\* a catalogue of three courses, for the rules on prerequisites, and the
\* order in which a query lists them (Meta.ordering = ['-created_at'])
Curriculum == {"basics", "python", "django"}
CourseOrder == <<"django", "python", "basics">>

Statuses == {"IN_PROGRESS", "COMPLETED", "CANCELLED"}

\* User.ROLE_CHOICES and the roles of is_staff_member
Roles == {"ADMIN", "REGISTRAR", "ACADEMIC", "FINANCE", "STUDENT", "TUTOR"}
StaffRoles == {"ADMIN", "REGISTRAR", "ACADEMIC", "FINANCE"}
\* a request that does not send the role field
NoRole == "not sent"
\* the registrar's account and the usernames that are still free, for the
\* account operations
RegistrarUser == "registrar"
NewUsers == {"u1"}

\* -------------------------------------------------------------- calendar
YearOf(d) == 2025 + d
MonthOf(d) == (d % 12) + 1

\* n formatted as w decimal digits, zero padded (format spec {n:0wd})
Digits(n, w) == [i \in 1..w |-> (n \div (10 ^ (w - i))) % 10]

\* f"RCP-{year}{month:02d}-{count:05d}"
FormatReceipt(year, month, count) ==
    <<"RCP", year, Digits(month, 2), Digits(count, 5)>>

\* f"CERT-{year}-{count:06d}"
FormatCertificate(year, count) == <<"CERT", year, Digits(count, 6)>>

RECURSIVE SumAmounts(_)
SumAmounts(S) ==
    IF S = {} THEN 0
    ELSE LET p == CHOOSE x \in S : TRUE
         IN p.amount + SumAmounts(S \ {p})

VARIABLES
    today,          \* timezone.now().date()
    users,          \* accounts_user rows: role, is_active
    courses,        \* courses_course rows: price, is_active
    enrollments,    \* enrollments_enrollment rows
    payments,       \* payments_payment rows
    certificates,   \* certifications_certificate rows
    nextEnrollmentId, nextPaymentId, nextCertificateId,   \* auto-increment keys
    requests,       \* per worker: the save() call it is in the middle of
    storage,        \* the files of the media storage (certificate PDFs)
    pisa_err,       \* whether the HTML-to-PDF engine reports an error
    last            \* how the last request ended: "ok" or the error raised

vars == <<today, users, courses, enrollments, payments, certificates,
          nextEnrollmentId, nextPaymentId, nextCertificateId, requests,
          storage, pisa_err, last>>

\* the media storage and the condition of the PDF engine
media == <<storage, pisa_err>>

\* a worker that is between requests
Idle == [kind |-> "idle", stage |-> "", enrollment |-> 0, amount |-> 0,
         date |-> NoDate, is_public |-> FALSE, number |-> <<>>, code |-> 0]

\* ------------------------------------------------------------- queries
EnrollmentById(id) == CHOOSE e \in enrollments : e.id = id
EnrollmentIds == {e.id : e \in enrollments}
\* the keys a request may name: one enrollment per student and course
\* can be stored (unique_together)
EnrollmentKeys == 1..(Cardinality(Students) * Cardinality(Courses))
PaymentsOf(eid) == {p \in payments : p.enrollment = eid}
CertificatesOf(eid) == {c \in certificates : c.enrollment = eid}
CoursePrice(eid) == courses[EnrollmentById(eid).course].price

\* Payment.get_total_paid_for_enrollment
TotalPaid(eid) == SumAmounts(PaymentsOf(eid))

\* ------------------------------------------------------------- accounts
\* a faulty handler that takes only ADMIN for a staff role
SetStaffStatusAdminOnly(user) == [user EXCEPT !.is_staff = user.role = "ADMIN"]

\* signals.set_staff_status: the stored is_staff becomes what the role says
SetStaffStatus(user) ==
    LET should_be_staff == user.role \in StaffRoles
    IN IF user.is_staff # should_be_staff
       THEN [user EXCEPT !.is_staff = should_be_staff]
       ELSE user

\* the post_save receivers of User run after the row is written
PostSave(user) == SetStaffStatus(user)

\* user.save(): the accounts after the row of the named user is written
UserSave(name, user) ==
    [n \in DOMAIN users \cup {name} |->
        IF n = name THEN PostSave(user) ELSE users[n]]

\* request.user.is_authenticated: a login is refused for an inactive account
Authenticated(caller) == caller \in DOMAIN users /\ users[caller].is_active

\* permissions.IsAdmin and permissions.IsAdminOrRegistrar
IsAdmin(caller) == Authenticated(caller) /\ users[caller].role = "ADMIN"
IsAdminOrRegistrar(caller) ==
    Authenticated(caller) /\ users[caller].role \in {"ADMIN", "REGISTRAR"}

\* UserViewSet.get_queryset: a registrar sees students and tutors only
Visible(caller, target) ==
    /\ target \in DOMAIN users
    /\ users[caller].role = "REGISTRAR" =>
           users[target].role \in {"STUDENT", "TUTOR"}

\* a faulty validate_role that lets a registrar create any account
CreateValidateRoleAnyone(caller, role) == "ok"

\* UserCreateSerializer.validate_role
CreateValidateRole(caller, role) ==
    IF users[caller].role = "REGISTRAR" /\ role \notin {"STUDENT", "TUTOR"}
    THEN "role"
    ELSE IF role \in StaffRoles /\ users[caller].role # "ADMIN" THEN "role"
    ELSE "ok"

\* UserUpdateSerializer.validate_role
UpdateValidateRole(caller, role) ==
    IF role \in StaffRoles /\ users[caller].role # "ADMIN" THEN "role"
    ELSE "ok"

\* UserViewSet.create with UserCreateSerializer; username is unique=True
UserCreate(caller, name, role, is_active) ==
    /\ IF ~ IsAdminOrRegistrar(caller)
       THEN /\ last' = "Forbidden"
            /\ UNCHANGED users
       ELSE IF role # NoRole /\ CreateValidateRole(caller, role) # "ok"
       THEN /\ last' = "ValidationError"
            /\ UNCHANGED users
       ELSE IF name \in DOMAIN users
       THEN /\ last' = "IntegrityError"
            /\ UNCHANGED users
       ELSE /\ users' = UserSave(name,
                            [role |-> IF role = NoRole THEN "STUDENT" ELSE role,
                             is_active |-> is_active, is_staff |-> FALSE])
            /\ last' = "ok"
    /\ UNCHANGED <<media, today, courses, enrollments, payments, certificates,
                   nextEnrollmentId, nextPaymentId, nextCertificateId,
                   requests>>

\* UserManager.create_superuser: is_staff defaults to True and must be
\* True, role defaults to ADMIN
CreateSuperuser(name, role, is_staff) ==
    /\ IF ~ is_staff
       THEN /\ last' = "ValueError"
            /\ UNCHANGED users
       ELSE IF name \in DOMAIN users
       THEN /\ last' = "IntegrityError"
            /\ UNCHANGED users
       ELSE /\ users' = UserSave(name,
                            [role |-> IF role = NoRole THEN "ADMIN" ELSE role,
                             is_active |-> TRUE, is_staff |-> is_staff])
            /\ last' = "ok"
    /\ UNCHANGED <<media, today, courses, enrollments, payments, certificates,
                   nextEnrollmentId, nextPaymentId, nextCertificateId,
                   requests>>

\* UserViewSet.update / partial_update with UserUpdateSerializer; attrs:
\* role (NoRole when not sent) and has_active/is_active
UserUpdate(caller, target, attrs) ==
    /\ IF ~ IsAdmin(caller)
       THEN /\ last' = "Forbidden"
            /\ UNCHANGED users
       ELSE IF ~ Visible(caller, target)
       THEN /\ last' = "NotFound"
            /\ UNCHANGED users
       ELSE IF attrs.role # NoRole
               /\ UpdateValidateRole(caller, attrs.role) # "ok"
       THEN /\ last' = "ValidationError"
            /\ UNCHANGED users
       ELSE /\ users' = UserSave(target,
                            [users[target] EXCEPT
                                 !.role = IF attrs.role = NoRole THEN @
                                          ELSE attrs.role,
                                 !.is_active = IF attrs.has_active
                                               THEN attrs.is_active ELSE @])
            /\ last' = "ok"
    /\ UNCHANGED <<media, today, courses, enrollments, payments, certificates,
                   nextEnrollmentId, nextPaymentId, nextCertificateId,
                   requests>>

\* the request bodies of an account update
UserAttrs ==
    {a \in [role : Roles \cup {NoRole}, has_active : BOOLEAN,
            is_active : BOOLEAN] : ~ a.has_active => a.is_active}

\* ProfileViewSet.update_profile with ProfileSerializer: role is read-only,
\* so a role that is sent is dropped; the caller's row is saved
ProfileUpdate(caller, role) ==
    /\ IF ~ Authenticated(caller)
       THEN /\ last' = "Forbidden"
            /\ UNCHANGED users
       ELSE /\ users' = UserSave(caller, users[caller])
            /\ last' = "ok"
    /\ UNCHANGED <<media, today, courses, enrollments, payments, certificates,
                   nextEnrollmentId, nextPaymentId, nextCertificateId,
                   requests>>

\* AuthViewSet.change_password: set_password, then request.user.save()
ChangePassword(caller) ==
    /\ IF ~ Authenticated(caller)
       THEN /\ last' = "Forbidden"
            /\ UNCHANGED users
       ELSE /\ users' = UserSave(caller, users[caller])
            /\ last' = "ok"
    /\ UNCHANGED <<media, today, courses, enrollments, payments, certificates,
                   nextEnrollmentId, nextPaymentId, nextCertificateId,
                   requests>>

\* UserViewSet.activate
UserActivate(caller, target) ==
    /\ IF ~ IsAdminOrRegistrar(caller)
       THEN /\ last' = "Forbidden"
            /\ UNCHANGED users
       ELSE IF ~ Visible(caller, target)
       THEN /\ last' = "NotFound"
            /\ UNCHANGED users
       ELSE /\ users' = UserSave(target,
                            [users[target] EXCEPT !.is_active = TRUE])
            /\ last' = "ok"
    /\ UNCHANGED <<media, today, courses, enrollments, payments, certificates,
                   nextEnrollmentId, nextPaymentId, nextCertificateId,
                   requests>>

\* a faulty deactivate without the check for the caller's own account
UserDeactivateAnyone(caller, target) ==
    /\ IF ~ IsAdminOrRegistrar(caller)
       THEN /\ last' = "Forbidden"
            /\ UNCHANGED users
       ELSE IF ~ Visible(caller, target)
       THEN /\ last' = "NotFound"
            /\ UNCHANGED users
       ELSE /\ users' = UserSave(target,
                            [users[target] EXCEPT !.is_active = FALSE])
            /\ last' = "ok"
    /\ UNCHANGED <<media, today, courses, enrollments, payments, certificates,
                   nextEnrollmentId, nextPaymentId, nextCertificateId,
                   requests>>

\* UserViewSet.deactivate
UserDeactivate(caller, target) ==
    /\ IF ~ IsAdminOrRegistrar(caller)
       THEN /\ last' = "Forbidden"
            /\ UNCHANGED users
       ELSE IF ~ Visible(caller, target)
       THEN /\ last' = "NotFound"
            /\ UNCHANGED users
       ELSE IF target = caller
       THEN /\ last' = "BadRequest"
            /\ UNCHANGED users
       ELSE /\ users' = UserSave(target,
                            [users[target] EXCEPT !.is_active = FALSE])
            /\ last' = "ok"
    /\ UNCHANGED <<media, today, courses, enrollments, payments, certificates,
                   nextEnrollmentId, nextPaymentId, nextCertificateId,
                   requests>>

\* ---------------------------------------------------------- enrollments
\* a faulty duplicate query that looks at IN_PROGRESS enrollments only
EnrollmentDuplicateInProgress(student, course) ==
    \E x \in enrollments :
        x.student = student /\ x.course = course /\ x.status = "IN_PROGRESS"

\* Enrollment.clean; the duplicate check runs for unsaved records only
EnrollmentDuplicate(student, course) ==
    \E x \in enrollments :
        x.student = student /\ x.course = course /\ x.status # "CANCELLED"

EnrollmentClean(e, isNew) ==
    IF users[e.student].role # "STUDENT" THEN "student"
    ELSE IF isNew /\ EnrollmentDuplicate(e.student, e.course) THEN "course"
    ELSE IF e.status = "COMPLETED" /\ e.completion_date = NoDate
        THEN "completion_date"
    ELSE IF e.completion_date # NoDate /\ e.completion_date < e.enrollment_date
        THEN "completion_date"
    ELSE "ok"

\* course.prerequisites.all(), in the order of the query
PrerequisiteList(course) ==
    LET Required(c) == c \in courses[course].prerequisites
    IN SelectSeq(CourseOrder, Required)

\* a faulty completed_courses query that takes every enrollment that is
\* not cancelled
MissingPrerequisitesNotCancelled(student, prerequisites) ==
    LET completed_courses ==
            {x.course : x \in {y \in enrollments :
                                  /\ y.student = student
                                  /\ y.status # "CANCELLED"}}
        Missing(c) == c \notin completed_courses
    IN SelectSeq(prerequisites, Missing)

\* the prerequisites, among those listed, for which the student has no
\* COMPLETED enrollment
MissingPrerequisites(student, prerequisites) ==
    LET completed_courses ==
            {x.course : x \in {y \in enrollments :
                                  /\ y.student = student
                                  /\ y.status = "COMPLETED"}}
        Missing(c) == c \notin completed_courses
    IN SelectSeq(prerequisites, Missing)

\* a faulty check_prerequisites that counts every enrollment that is not
\* cancelled
CheckPrerequisitesNotCancelled(e) ==
    LET prerequisites == PrerequisiteList(e.course)
        Missing(c) == ~ \E y \in enrollments :
                            /\ y.student = e.student
                            /\ y.course = c
                            /\ y.status # "CANCELLED"
        missing_prerequisites == SelectSeq(prerequisites, Missing)
    IN IF prerequisites = <<>> THEN <<TRUE, <<>>>>
       ELSE <<Len(missing_prerequisites) = 0, missing_prerequisites>>

\* Enrollment.check_prerequisites
CheckPrerequisites(e) ==
    LET prerequisites == PrerequisiteList(e.course)
        missing_prerequisites ==
            MissingPrerequisites(e.student, prerequisites)
    IN IF prerequisites = <<>> THEN <<TRUE, <<>>>>
       ELSE <<Len(missing_prerequisites) = 0, missing_prerequisites>>

\* Meta.unique_together = ['student', 'course'], enforced by the store
EnrollmentUniqueTogether(student, course) ==
    ~ \E x \in enrollments : x.student = student /\ x.course = course

\* a faulty serializer without the check that the student is active
EnrollmentCreateValidateInactive(student, course) ==
    IF users[student].role # "STUDENT" THEN "student"
    ELSE IF ~ courses[course].is_active THEN "course"
    ELSE IF EnrollmentDuplicate(student, course) THEN "course"
    ELSE IF MissingPrerequisites(student, PrerequisiteList(course)) # <<>>
        THEN "course"
    ELSE "ok"

\* EnrollmentCreateSerializer: validate_student, validate_course, validate
EnrollmentCreateValidate(student, course) ==
    IF users[student].role # "STUDENT" THEN "student"
    ELSE IF ~ users[student].is_active THEN "student"
    ELSE IF ~ courses[course].is_active THEN "course"
    ELSE IF EnrollmentDuplicate(student, course) THEN "course"
    ELSE IF MissingPrerequisites(student, PrerequisiteList(course)) # <<>>
        THEN "course"
    ELSE "ok"

\* Enrollment.save for a record that is already stored
EnrollmentStore(old, new) ==
    LET err == EnrollmentClean(new, FALSE)
    IN IF err # "ok"
       THEN /\ last' = "ValidationError"
            /\ UNCHANGED enrollments
       ELSE /\ enrollments' = (enrollments \ {old}) \cup {new}
            /\ last' = "ok"

\* EnrollmentViewSet.create
EnrollmentCreate(student, course, date) ==
    /\ LET new == [id |-> nextEnrollmentId, student |-> student,
                   course |-> course, enrollment_date |-> date,
                   completion_date |-> NoDate, status |-> "IN_PROGRESS",
                   verified_by |-> NoUser]
           verr == EnrollmentCreateValidate(student, course)
           cerr == EnrollmentClean(new, TRUE)
       IN IF verr # "ok"
          THEN /\ last' = "ValidationError"
               /\ UNCHANGED <<enrollments, nextEnrollmentId>>
          ELSE IF cerr # "ok"
          THEN /\ last' = "ValidationError"
               /\ UNCHANGED <<enrollments, nextEnrollmentId>>
          ELSE IF ~ EnrollmentUniqueTogether(student, course)
          THEN /\ last' = "IntegrityError"
               /\ UNCHANGED <<enrollments, nextEnrollmentId>>
          ELSE /\ enrollments' = enrollments \cup {new}
               /\ nextEnrollmentId' = nextEnrollmentId + 1
               /\ last' = "ok"
    /\ UNCHANGED <<media, today, users, courses, payments, certificates,
                   nextPaymentId, nextCertificateId,
                   requests>>

\* EnrollmentViewSet.complete, with an optional explicit completion date;
\* the caller is recorded as the verifier
EnrollmentComplete(id, date) ==
    /\ id \in EnrollmentIds
    /\ LET e == EnrollmentById(id)
       IN IF e.status = "COMPLETED" \/ e.status = "CANCELLED"
          THEN /\ last' = "BadRequest"
               /\ UNCHANGED enrollments
          ELSE IF date # NoDate /\ date < e.enrollment_date
          THEN /\ last' = "ValidationError"
               /\ UNCHANGED enrollments
          ELSE EnrollmentStore(e,
                   [e EXCEPT !.status = "COMPLETED",
                             !.completion_date =
                                 IF date = NoDate THEN today ELSE date,
                             !.verified_by = StaffUser])
    /\ UNCHANGED <<media, today, users, courses, payments, certificates,
                   nextEnrollmentId, nextPaymentId, nextCertificateId,
                   requests>>

\* EnrollmentViewSet.cancel
EnrollmentCancel(id) ==
    /\ id \in EnrollmentIds
    /\ LET e == EnrollmentById(id)
       IN IF e.status = "COMPLETED"
          THEN /\ last' = "BadRequest"
               /\ UNCHANGED enrollments
          ELSE EnrollmentStore(e, [e EXCEPT !.status = "CANCELLED"])
    /\ UNCHANGED <<media, today, users, courses, payments, certificates,
                   nextEnrollmentId, nextPaymentId, nextCertificateId,
                   requests>>

\* a faulty update without the guard on COMPLETED enrollments
EnrollmentUpdateUnguarded(id, attrs) ==
    /\ id \in EnrollmentIds
    /\ LET e == EnrollmentById(id)
           new_status == IF attrs.has_status THEN attrs.status ELSE e.status
           given == attrs.has_date /\ attrs.completion_date # NoDate
           defaulted == new_status = "COMPLETED" /\ ~ given
                        /\ e.completion_date = NoDate
           new_date == IF defaulted THEN today
                       ELSE IF attrs.has_date THEN attrs.completion_date
                       ELSE e.completion_date
       IN EnrollmentStore(e,
              [e EXCEPT !.status = new_status,
                        !.completion_date = new_date])
    /\ UNCHANGED <<media, today, users, courses, payments, certificates,
                   nextEnrollmentId, nextPaymentId, nextCertificateId,
                   requests>>

\* EnrollmentUpdateSerializer.validate followed by ModelSerializer.update.
\* attrs: has_status/status and has_date/completion_date (NoDate is null).
EnrollmentUpdate(id, attrs) ==
    /\ id \in EnrollmentIds
    /\ LET e == EnrollmentById(id)
           new_status == IF attrs.has_status THEN attrs.status ELSE e.status
           given == attrs.has_date /\ attrs.completion_date # NoDate
           defaulted == new_status = "COMPLETED" /\ ~ given
                        /\ e.completion_date = NoDate
           new_date == IF defaulted THEN today
                       ELSE IF attrs.has_date THEN attrs.completion_date
                       ELSE e.completion_date
       IN IF e.status = "COMPLETED" /\ new_status # "COMPLETED"
          THEN /\ last' = "ValidationError"
               /\ UNCHANGED enrollments
          ELSE EnrollmentStore(e,
                   [e EXCEPT !.status = new_status,
                             !.completion_date = new_date])
    /\ UNCHANGED <<media, today, users, courses, payments, certificates,
                   nextEnrollmentId, nextPaymentId, nextCertificateId,
                   requests>>

\* a faulty mark_completed that lacks the check for CANCELLED
MarkCompletedOfCancelled(id, verified_by) ==
    /\ id \in EnrollmentIds
    /\ LET e == EnrollmentById(id)
       IN IF e.status = "COMPLETED"
          THEN /\ last' = "ValidationError"
               /\ UNCHANGED enrollments
          ELSE EnrollmentStore(e,
                   [e EXCEPT !.status = "COMPLETED",
                             !.completion_date = today,
                             !.verified_by =
                                 IF verified_by # NoUser THEN verified_by
                                 ELSE e.verified_by])
    /\ UNCHANGED <<media, today, users, courses, payments, certificates,
                   nextEnrollmentId, nextPaymentId, nextCertificateId,
                   requests>>

\* Enrollment.mark_completed; verified_by is NoUser when none is given
MarkCompleted(id, verified_by) ==
    /\ id \in EnrollmentIds
    /\ LET e == EnrollmentById(id)
       IN IF e.status = "COMPLETED"
          THEN /\ last' = "ValidationError"
               /\ UNCHANGED enrollments
          ELSE IF e.status = "CANCELLED"
          THEN /\ last' = "ValidationError"
               /\ UNCHANGED enrollments
          ELSE EnrollmentStore(e,
                   [e EXCEPT !.status = "COMPLETED",
                             !.completion_date = today,
                             !.verified_by =
                                 IF verified_by # NoUser THEN verified_by
                                 ELSE e.verified_by])
    /\ UNCHANGED <<media, today, users, courses, payments, certificates,
                   nextEnrollmentId, nextPaymentId, nextCertificateId,
                   requests>>

\* Enrollment.mark_cancelled
MarkCancelled(id) ==
    /\ id \in EnrollmentIds
    /\ LET e == EnrollmentById(id)
       IN IF e.status = "COMPLETED"
          THEN /\ last' = "ValidationError"
               /\ UNCHANGED enrollments
          ELSE EnrollmentStore(e, [e EXCEPT !.status = "CANCELLED"])
    /\ UNCHANGED <<media, today, users, courses, payments, certificates,
                   nextEnrollmentId, nextPaymentId, nextCertificateId,
                   requests>>

\* the selections of a back-office action: the chosen enrollments in the
\* order of the queryset (Meta.ordering = ['-enrollment_date']; rows of one
\* date come in any order)
Selections ==
    {q \in UNION {[1..n -> EnrollmentIds] : n \in 1..Cardinality(EnrollmentIds)} :
        /\ \A i, j \in 1..Len(q) : i # j => q[i] # q[j]
        /\ \A i, j \in 1..Len(q) :
               i < j => EnrollmentById(q[i]).enrollment_date
                            >= EnrollmentById(q[j]).enrollment_date}

\* the loop of EnrollmentAdmin.mark_completed over the rows from position i:
\* a row that is IN_PROGRESS is completed and saved; a save that fails ends
\* the action with the rows saved so far kept
RECURSIVE AdminCompleteLoop(_, _, _, _)
AdminCompleteLoop(q, i, enrs, todayDate) ==
    IF i > Len(q) THEN [result |-> "ok", enrollments |-> enrs]
    ELSE LET e == CHOOSE x \in enrs : x.id = q[i]
             new == [e EXCEPT !.status = "COMPLETED",
                              !.completion_date = todayDate,
                              !.verified_by = StaffUser]
         IN IF e.status # "IN_PROGRESS"
            THEN AdminCompleteLoop(q, i + 1, enrs, todayDate)
            ELSE IF EnrollmentClean(new, FALSE) # "ok"
            THEN [result |-> "ValidationError", enrollments |-> enrs]
            ELSE AdminCompleteLoop(q, i + 1, (enrs \ {e}) \cup {new},
                                   todayDate)

\* EnrollmentAdmin.mark_completed
AdminMarkCompleted(q) ==
    /\ LET r == AdminCompleteLoop(q, 1, enrollments, today)
       IN /\ enrollments' = r.enrollments
          /\ last' = r.result
    /\ UNCHANGED <<media, today, users, courses, payments, certificates,
                   nextEnrollmentId, nextPaymentId, nextCertificateId,
                   requests>>

\* EnrollmentAdmin.mark_cancelled: one UPDATE of the selected rows that are
\* IN_PROGRESS, without save or clean
AdminMarkCancelled(q) ==
    /\ enrollments' =
           {IF (\E i \in 1..Len(q) : q[i] = e.id) /\ e.status = "IN_PROGRESS"
            THEN [e EXCEPT !.status = "CANCELLED"] ELSE e : e \in enrollments}
    /\ last' = "ok"
    /\ UNCHANGED <<media, today, users, courses, payments, certificates,
                   nextEnrollmentId, nextPaymentId, nextCertificateId,
                   requests>>

\* EnrollmentViewSet.retrieve with EnrollmentSerializer: the response
\* carries prerequisites_met; its 'met' flag is what the request ends with
EnrollmentRetrieve(id) ==
    /\ id \in EnrollmentIds
    /\ last' = IF CheckPrerequisites(EnrollmentById(id))[1]
               THEN "prerequisites met" ELSE "prerequisites missing"
    /\ UNCHANGED <<media, today, users, courses, enrollments, payments,
                   certificates,
                   nextEnrollmentId, nextPaymentId, nextCertificateId,
                   requests>>

\* the request bodies of a partial update; a field that is not sent keeps
\* a fixed placeholder
UpdateAttrs ==
    {a \in [has_status : BOOLEAN, status : Statuses,
            has_date : BOOLEAN, completion_date : Days \cup {NoDate}] :
        /\ ~ a.has_status => a.status = "IN_PROGRESS"
        /\ ~ a.has_date => a.completion_date = NoDate}

\* -------------------------------------------------------------- payments
\* a faulty Payment.clean that already refuses a total equal to the price
PaymentCleanBelowPrice(pmts, p, todayDate) ==
    LET e == EnrollmentById(p.enrollment)
        existing == {x \in pmts : x.enrollment = p.enrollment /\ x.id # p.id}
        total_paid == SumAmounts(existing) + p.amount
    IN IF p.amount <= 0 THEN "amount"
       ELSE IF total_paid >= courses[e.course].price THEN "amount"
       ELSE IF p.payment_date < e.enrollment_date THEN "payment_date"
       ELSE IF p.payment_date > todayDate THEN "payment_date"
       ELSE "ok"

\* Payment.clean against a given set of stored payments; pk is 0 for a
\* record that is not stored yet (exclude(pk=None) excludes nothing)
PaymentClean(pmts, p, todayDate) ==
    LET e == EnrollmentById(p.enrollment)
        existing == {x \in pmts : x.enrollment = p.enrollment /\ x.id # p.id}
        total_paid == SumAmounts(existing) + p.amount
    IN IF p.amount <= 0 THEN "amount"
       ELSE IF total_paid > courses[e.course].price THEN "amount"
       ELSE IF p.payment_date < e.enrollment_date THEN "payment_date"
       ELSE IF p.payment_date > todayDate THEN "payment_date"
       ELSE "ok"

\* Payment.generate_receipt_number
GenerateReceiptNumber(pmts, todayDate) ==
    LET year == YearOf(todayDate)
        month == MonthOf(todayDate)
        count == Cardinality({x \in pmts :
                     /\ YearOf(x.payment_date) = year
                     /\ MonthOf(x.payment_date) = month}) + 1
    IN FormatReceipt(year, month, count)

\* a receipt_number column without its unique constraint
ReceiptNotUnique(pmts, number) == TRUE

\* receipt_number is unique=True
ReceiptUnique(pmts, number) == ~ \E x \in pmts : x.receipt_number = number

\* Payment.objects.create: Payment.save of a new record, then the INSERT
PaymentModelCreate(pmts, nextId, eid, amount, date, todayDate) ==
    LET number == GenerateReceiptNumber(pmts, todayDate)
        new == [id |-> 0, enrollment |-> eid, amount |-> amount,
                payment_date |-> date, receipt_number |-> number]
        err == PaymentClean(pmts, new, todayDate)
    IN IF err # "ok"
       THEN [result |-> "ValidationError", field |-> err,
             payments |-> pmts, nextId |-> nextId]
       ELSE IF ~ ReceiptUnique(pmts, number)
       THEN [result |-> "IntegrityError", field |-> "receipt_number",
             payments |-> pmts, nextId |-> nextId]
       ELSE [result |-> "ok", field |-> "",
             payments |-> pmts \cup {[new EXCEPT !.id = nextId]},
             nextId |-> nextId + 1]

\* PaymentCreateSerializer: validate_enrollment, validate_amount,
\* validate_payment_date, validate
PaymentCreateValidate(eid, amount, date) ==
    LET e == EnrollmentById(eid)
    IN IF e.status = "CANCELLED" THEN "enrollment"
       ELSE IF amount <= 0 THEN "amount"
       ELSE IF date > today THEN "payment_date"
       ELSE IF date < e.enrollment_date THEN "payment_date"
       ELSE IF TotalPaid(eid) + amount > courses[e.course].price THEN "amount"
       ELSE "ok"

\* PaymentViewSet.create
PaymentCreate(eid, amount, date) ==
    /\ eid \in EnrollmentIds
    /\ nextPaymentId <= MaxPayments
    /\ LET verr == PaymentCreateValidate(eid, amount, date)
           r == PaymentModelCreate(payments, nextPaymentId, eid, amount,
                                   date, today)
       IN IF verr # "ok"
          THEN /\ last' = "ValidationError"
               /\ UNCHANGED <<payments, nextPaymentId>>
          ELSE /\ payments' = r.payments
               /\ nextPaymentId' = r.nextId
               /\ last' = r.result
    /\ UNCHANGED <<media, today, users, courses, enrollments, certificates,
                   nextEnrollmentId, nextCertificateId,
                   requests>>

\* Payment(...).save() on a new record, without the request serializer
PaymentSave(eid, amount, date) ==
    /\ eid \in EnrollmentIds
    /\ nextPaymentId <= MaxPayments
    /\ LET r == PaymentModelCreate(payments, nextPaymentId, eid, amount,
                                   date, today)
       IN /\ payments' = r.payments
          /\ nextPaymentId' = r.nextId
          /\ last' = r.result
    /\ UNCHANGED <<media, today, users, courses, enrollments, certificates,
                   nextEnrollmentId, nextCertificateId,
                   requests>>

\* PaymentViewSet.update / partial_update with PaymentUpdateSerializer:
\* only payment_method and notes change, which no rule reads and the model
\* does not keep; Payment.save then runs clean on the stored record again
PaymentUpdate(pid) ==
    /\ \E p \in payments : p.id = pid
    /\ LET p == CHOOSE x \in payments : x.id = pid
           err == PaymentClean(payments, p, today)
       IN IF err # "ok"
          THEN /\ last' = "ValidationError"
               /\ UNCHANGED payments
          ELSE /\ payments' = (payments \ {p}) \cup {p}
               /\ last' = "ok"
    /\ UNCHANGED <<media, today, users, courses, enrollments, certificates,
                   nextEnrollmentId, nextPaymentId, nextCertificateId,
                   requests>>

\* PaymentViewSet.destroy
PaymentDelete(pid) ==
    /\ \E p \in payments : p.id = pid
    /\ payments' = {p \in payments : p.id # pid}
    /\ last' = "ok"
    /\ UNCHANGED <<media, today, users, courses, enrollments, certificates,
                   nextEnrollmentId, nextPaymentId, nextCertificateId,
                   requests>>

\* BulkPaymentSerializer.validate_payments: every item is checked against
\* the stored total only, and the first failing item rejects the request
BulkItemInvalid(item) ==
    \/ item.enrollment_id \notin EnrollmentIds
    \/ item.amount <= 0
    \/ TotalPaid(item.enrollment_id) + item.amount
           > CoursePrice(item.enrollment_id)

\* the creation loop of PaymentViewSet.bulk_create from item i on; a
\* payment_date taken from the request is a string, and Payment.clean
\* compares it with a date, which raises TypeError for that item
RECURSIVE BulkLoop(_, _, _, _, _)
BulkLoop(items, i, pmts, nextId, errors) ==
    IF i > Len(items)
    THEN [payments |-> pmts, nextId |-> nextId, errors |-> errors]
    ELSE LET item == items[i]
             r == PaymentModelCreate(pmts, nextId, item.enrollment_id,
                                     item.amount, today, today)
             failed == item.dated \/ r.result # "ok"
         IN IF failed
            THEN BulkLoop(items, i + 1, pmts, nextId, errors \cup {i})
            ELSE BulkLoop(items, i + 1, r.payments, r.nextId, errors)

\* PaymentViewSet.bulk_create
PaymentBulkCreate(items) ==
    /\ nextPaymentId + Len(items) <= MaxPayments + 1
    /\ IF \E i \in 1..Len(items) : BulkItemInvalid(items[i])
       THEN /\ last' = "ValidationError"
            /\ UNCHANGED <<payments, nextPaymentId>>
       ELSE LET r == BulkLoop(items, 1, payments, nextPaymentId, {})
            IN /\ payments' = r.payments
               /\ nextPaymentId' = r.nextId
               /\ last' = IF r.errors = {} THEN "ok" ELSE "partial"
    /\ UNCHANGED <<media, today, users, courses, enrollments, certificates,
                   nextEnrollmentId, nextCertificateId,
                   requests>>

BulkItems ==
    [enrollment_id : EnrollmentKeys, amount : Amounts, dated : BOOLEAN]
\* requests of one item, and of two items that pass the field checks
BulkRequests ==
    {<<a>> : a \in BulkItems}
        \cup {<<a, b>> : a, b \in {x \in BulkItems :
                                       x.amount > 0 /\ ~ x.dated}}

\* CourseViewSet.update / partial_update with CourseCreateUpdateSerializer:
\* the price field accepts every price >= 0 (MinValueValidator) and nothing
\* compares it with the payments already stored
CourseUpdate(c, price) ==
    /\ price >= 0
    /\ courses' = [courses EXCEPT ![c].price = price]
    /\ last' = "ok"
    /\ UNCHANGED <<media, today, users, enrollments, payments, certificates,
                   nextEnrollmentId, nextPaymentId, nextCertificateId,
                   requests>>

\* CourseViewSet.create with CourseCreateUpdateSerializer: the
\* prerequisites field takes stored courses only, validate_prerequisites
\* checks nothing without an instance, and create stores the course and
\* sets its prerequisites
CourseCreate(c, price, is_active, prerequisites) ==
    /\ c \notin DOMAIN courses
    /\ price >= 0
    /\ IF ~ (prerequisites \subseteq DOMAIN courses)
       THEN /\ last' = "ValidationError"
            /\ UNCHANGED courses
       ELSE /\ courses' = [x \in DOMAIN courses \cup {c} |->
                              IF x = c
                              THEN [price |-> price, is_active |-> is_active,
                                    prerequisites |-> prerequisites]
                              ELSE courses[x]]
            /\ last' = "ok"
    /\ UNCHANGED <<media, today, users, enrollments, payments, certificates,
                   nextEnrollmentId, nextPaymentId, nextCertificateId,
                   requests>>

\* a faulty validate_prerequisites that only refuses the course itself
CourseSetPrerequisitesSelfOnly(c, prerequisites) ==
    /\ c \in DOMAIN courses
    /\ IF ~ (prerequisites \subseteq DOMAIN courses)
       THEN /\ last' = "ValidationError"
            /\ UNCHANGED courses
       ELSE IF c \in prerequisites
       THEN /\ last' = "ValidationError"
            /\ UNCHANGED courses
       ELSE /\ courses' = [courses EXCEPT ![c].prerequisites = prerequisites]
            /\ last' = "ok"
    /\ UNCHANGED <<media, today, users, enrollments, payments, certificates,
                   nextEnrollmentId, nextPaymentId, nextCertificateId,
                   requests>>

\* CourseViewSet.update / partial_update with a prerequisites field: the
\* field takes stored courses only, then validate_prerequisites, then
\* prerequisites.set
CourseSetPrerequisites(c, prerequisites) ==
    /\ c \in DOMAIN courses
    /\ IF ~ (prerequisites \subseteq DOMAIN courses)
       THEN /\ last' = "ValidationError"
            /\ UNCHANGED courses
       ELSE IF \E prereq \in prerequisites :
              \/ prereq = c
              \/ c \in courses[prereq].prerequisites
       THEN /\ last' = "ValidationError"
            /\ UNCHANGED courses
       ELSE /\ courses' = [courses EXCEPT ![c].prerequisites = prerequisites]
            /\ last' = "ok"
    /\ UNCHANGED <<media, today, users, enrollments, payments, certificates,
                   nextEnrollmentId, nextPaymentId, nextCertificateId,
                   requests>>

\* CourseViewSet.toggle_active
CourseToggleActive(c) ==
    /\ courses' = [courses EXCEPT ![c].is_active = ~ courses[c].is_active]
    /\ last' = "ok"
    /\ UNCHANGED <<media, today, users, enrollments, payments, certificates,
                   nextEnrollmentId, nextPaymentId, nextCertificateId,
                   requests>>

\* ---------------------------------------------------------- certificates
\* a faulty Certificate.clean without the duplicate check
CertificateCleanNoDuplicateCheck(certs, c) ==
    LET e == EnrollmentById(c.enrollment)
    IN IF e.status # "COMPLETED" THEN "enrollment"
       ELSE IF e.completion_date = NoDate THEN "enrollment"
       ELSE IF c.issue_date < e.completion_date THEN "issue_date"
       ELSE "ok"

\* Certificate.clean; pk is 0 for a record that is not stored yet
CertificateClean(certs, c) ==
    LET e == EnrollmentById(c.enrollment)
    IN IF e.status # "COMPLETED" THEN "enrollment"
       ELSE IF e.completion_date = NoDate THEN "enrollment"
       ELSE IF c.issue_date < e.completion_date THEN "issue_date"
       ELSE IF c.id = 0 /\ \E x \in certs : x.enrollment = c.enrollment
           THEN "enrollment"
       ELSE "ok"

\* the numbering step of Certificate.save
GenerateCertificateNumber(certs, todayDate) ==
    LET year == YearOf(todayDate)
        count == Cardinality({x \in certs : YearOf(x.issue_date) = year}) + 1
    IN FormatCertificate(year, count)

\* str(uuid.uuid4()): a code that no stored certificate and no other save
\* in progress carries; the model takes the smallest such number
UsedCodes(certs) ==
    {c.verification_code : c \in certs}
        \cup {requests[w].code : w \in Workers}
NewVerificationCode(certs) ==
    CHOOSE n \in 1..(Cardinality(UsedCodes(certs)) + 1) :
        n \notin UsedCodes(certs)

\* certificate_number and verification_code are unique=True and enrollment
\* is a OneToOneField
CertificateUnique(certs, c) ==
    ~ \E x \in certs :
        \/ x.certificate_number = c.certificate_number
        \/ x.verification_code = c.verification_code
        \/ x.enrollment = c.enrollment

\* certificate_file is null: no file is attached
NoFile == 0

\* the name under which the storage keeps the file of a certificate:
\* upload_to and the name of the ContentFile, one name per certificate
FileName(c) == c.id

\* the names of the files attached to the rows certs
AttachedFiles(certs) == {c.certificate_file : c \in certs} \ {NoFile}

\* a faulty _generate_and_attach_pdf that writes the name of the file to
\* the row whether or not a file was generated
GenerateAndAttachPdfAlways(c) == [c EXCEPT !.certificate_file = FileName(c)]

\* Certificate._generate_and_attach_pdf on the row just inserted:
\* generate_certificate_pdf raises when the engine reports an error, the
\* error is logged and the row stays without a file; otherwise the file is
\* saved and its name written to the row
GenerateAndAttachPdf(c) ==
    IF pisa_err
    THEN c
    ELSE [c EXCEPT !.certificate_file = FileName(c)]

\* a faulty Certificate.save that does not call clean
CertificateModelCreateNoClean(certs, nextId, eid, issue_date, is_public, todayDate) ==
    LET new == [id |-> 0, enrollment |-> eid,
                certificate_number |->
                    GenerateCertificateNumber(certs, todayDate),
                verification_code |-> NewVerificationCode(certs),
                issue_date |-> issue_date, is_public |-> is_public,
                certificate_file |-> NoFile]
    IN IF ~ CertificateUnique(certs, new)
       THEN [result |-> "IntegrityError", field |-> "certificate_number",
             certificates |-> certs, nextId |-> nextId]
       ELSE [result |-> "ok", field |-> "",
             certificates |-> certs \cup
                 {GenerateAndAttachPdf([new EXCEPT !.id = nextId])},
             nextId |-> nextId + 1]

\* Certificate.objects.create: Certificate.save of a new record, then the
\* INSERT
CertificateModelCreate(certs, nextId, eid, issue_date, is_public, todayDate) ==
    LET new == [id |-> 0, enrollment |-> eid,
                certificate_number |->
                    GenerateCertificateNumber(certs, todayDate),
                verification_code |-> NewVerificationCode(certs),
                issue_date |-> issue_date, is_public |-> is_public,
                certificate_file |-> NoFile]
        err == CertificateClean(certs, new)
    IN IF err # "ok"
       THEN [result |-> "ValidationError", field |-> err,
             certificates |-> certs, nextId |-> nextId]
       ELSE IF ~ CertificateUnique(certs, new)
       THEN [result |-> "IntegrityError", field |-> "certificate_number",
             certificates |-> certs, nextId |-> nextId]
       ELSE [result |-> "ok", field |-> "",
             certificates |-> certs \cup
                 {GenerateAndAttachPdf([new EXCEPT !.id = nextId])},
             nextId |-> nextId + 1]

\* CertificateCreateSerializer: validate_enrollment, validate_issue_date,
\* validate
CertificateCreateValidate(eid, issue_date) ==
    LET e == EnrollmentById(eid)
    IN IF e.status # "COMPLETED" THEN "enrollment"
       ELSE IF e.completion_date = NoDate THEN "enrollment"
       ELSE IF CertificatesOf(eid) # {} THEN "enrollment"
       ELSE IF issue_date > today THEN "issue_date"
       ELSE IF issue_date < e.completion_date THEN "issue_date"
       ELSE "ok"

\* CertificateViewSet.create
CertificateCreate(eid, issue_date, is_public) ==
    /\ eid \in EnrollmentIds
    /\ LET verr == CertificateCreateValidate(eid, issue_date)
           r == CertificateModelCreate(certificates, nextCertificateId, eid,
                                       issue_date, is_public, today)
       IN IF verr # "ok"
          THEN /\ last' = "ValidationError"
               /\ UNCHANGED <<certificates, nextCertificateId, storage>>
          ELSE /\ certificates' = r.certificates
               /\ nextCertificateId' = r.nextId
               /\ storage' = storage \cup
                      AttachedFiles(r.certificates \ certificates)
               /\ last' = r.result
    /\ UNCHANGED <<pisa_err, today, users, courses, enrollments, payments,
                   nextEnrollmentId, nextPaymentId,
                   requests>>

\* Certificate(...).save() on a new record, without the request serializer
CertificateSave(eid, issue_date, is_public) ==
    /\ eid \in EnrollmentIds
    /\ LET r == CertificateModelCreate(certificates, nextCertificateId, eid,
                                       issue_date, is_public, today)
       IN /\ certificates' = r.certificates
          /\ nextCertificateId' = r.nextId
          /\ storage' = storage \cup
                 AttachedFiles(r.certificates \ certificates)
          /\ last' = r.result
    /\ UNCHANGED <<pisa_err, today, users, courses, enrollments, payments,
                   nextEnrollmentId, nextPaymentId,
                   requests>>

\* BulkCertificateIssueSerializer.validate_enrollment_ids
BulkIssueInvalid(ids) ==
    LET idset == {ids[i] : i \in 1..Len(ids)}
        found == {e \in enrollments : e.id \in idset}
    IN \/ Cardinality(found) # Len(ids)
       \/ \E e \in found : e.status # "COMPLETED"
       \/ \E e \in found : CertificatesOf(e.id) # {}

\* the queryset order of Enrollment: Meta.ordering = ['-enrollment_date'],
\* rows of one date in primary-key order
FirstEnrollment(S) ==
    CHOOSE e \in S : \A x \in S :
        \/ e.enrollment_date > x.enrollment_date
        \/ e.enrollment_date = x.enrollment_date /\ e.id <= x.id

\* the creation loop of CertificateViewSet.bulk_issue over the rows todo
RECURSIVE BulkIssueLoop(_, _, _, _, _, _)
BulkIssueLoop(todo, certs, nextId, issue_date, is_public, errors) ==
    IF todo = {}
    THEN [certificates |-> certs, nextId |-> nextId, errors |-> errors]
    ELSE LET e == FirstEnrollment(todo)
             r == CertificateModelCreate(certs, nextId, e.id, issue_date,
                                         is_public, today)
         IN BulkIssueLoop(todo \ {e}, r.certificates, r.nextId, issue_date,
                          is_public,
                          IF r.result = "ok" THEN errors
                          ELSE errors \cup {e.id})

\* CertificateViewSet.bulk_issue
CertificateBulkIssue(ids, issue_date, is_public) ==
    /\ IF BulkIssueInvalid(ids)
       THEN /\ last' = "ValidationError"
            /\ UNCHANGED <<certificates, nextCertificateId, storage>>
       ELSE LET idset == {ids[i] : i \in 1..Len(ids)}
                r == BulkIssueLoop({e \in enrollments : e.id \in idset},
                                   certificates, nextCertificateId,
                                   issue_date, is_public, {})
            IN /\ certificates' = r.certificates
               /\ nextCertificateId' = r.nextId
               /\ storage' = storage \cup
                      AttachedFiles(r.certificates \ certificates)
               /\ last' = IF r.errors = {} THEN "ok" ELSE "partial"
    /\ UNCHANGED <<pisa_err, today, users, courses, enrollments, payments,
                   nextEnrollmentId, nextPaymentId,
                   requests>>

BulkIssueRequests ==
    LET Ids == EnrollmentKeys
    IN {<<a>> : a \in Ids} \cup {<<a, b>> : a, b \in Ids}

\* Certificate.toggle_public, called by CertificateViewSet.toggle_public:
\* the flag is inverted and Certificate.save runs clean on the stored record
CertificateTogglePublic(cid) ==
    /\ \E c \in certificates : c.id = cid
    /\ LET c == CHOOSE x \in certificates : x.id = cid
           new == [c EXCEPT !.is_public = ~ c.is_public]
           err == CertificateClean(certificates, new)
       IN IF err # "ok"
          THEN /\ last' = "ValidationError"
               /\ UNCHANGED certificates
          ELSE /\ certificates' = (certificates \ {c}) \cup {new}
               /\ last' = "ok"
    /\ UNCHANGED <<media, today, users, courses, enrollments, payments,
                   nextEnrollmentId, nextPaymentId, nextCertificateId,
                   requests>>

\* Certificate.regenerate_pdf: the old file is deleted from the storage
\* (delete(save=False) leaves the row as it is), then the PDF is generated,
\* which raises when the engine reports an error, and
\* save(update_fields=['certificate_file']) runs clean, writes the file to
\* the storage and its name to the row
CertificateRegeneratePdf(cid) ==
    /\ \E c \in certificates : c.id = cid
    /\ LET c == CHOOSE x \in certificates : x.id = cid
           deleted == storage \ {c.certificate_file}
           new == [c EXCEPT !.certificate_file = FileName(c)]
       IN IF pisa_err
          THEN /\ last' = "Exception"
               /\ storage' = deleted
               /\ UNCHANGED certificates
          ELSE IF CertificateClean(certificates, new) # "ok"
          THEN /\ last' = "ValidationError"
               /\ storage' = deleted
               /\ UNCHANGED certificates
          ELSE /\ certificates' = (certificates \ {c}) \cup {new}
               /\ storage' = deleted \cup {new.certificate_file}
               /\ last' = "ok"
    /\ UNCHANGED <<pisa_err, today, users, courses, enrollments, payments,
                   nextEnrollmentId, nextPaymentId, nextCertificateId,
                   requests>>

\* CertificateViewSet.download: 404 when the row names no file, the file
\* when the storage can open it, and 500 when opening it raises
CertificateDownload(cid) ==
    /\ \E c \in certificates : c.id = cid
    /\ LET c == CHOOSE x \in certificates : x.id = cid
       IN last' = IF c.certificate_file = NoFile THEN "NotFound"
                  ELSE IF c.certificate_file \in storage THEN "ok"
                  ELSE "ServerError"
    /\ UNCHANGED <<media, today, users, courses, enrollments, payments,
                   certificates, nextEnrollmentId, nextPaymentId,
                   nextCertificateId, requests>>

\* the HTML-to-PDF engine starts or stops reporting an error
\* (pisa_status.err of generate_certificate_pdf)
PisaStatus ==
    /\ pisa_err' = ~ pisa_err
    /\ UNCHANGED <<storage, today, users, courses, enrollments, payments,
                   certificates, nextEnrollmentId, nextPaymentId,
                   nextCertificateId, requests, last>>

\* a faulty lookup that leaves out the is_public filter
VerifyCertificateAnyVisibility(certs, code) ==
    {c \in certs : c.verification_code = code}

\* Certificate.verify_certificate: get(verification_code=..., is_public=True)
VerifyCertificate(certs, code) ==
    {c \in certs : c.verification_code = code /\ c.is_public}

\* PublicCertificateSerializer
PublicCertificate(c) ==
    LET e == EnrollmentById(c.enrollment)
    IN [certificate_number |-> c.certificate_number,
        student |-> e.student, course |-> e.course,
        issue_date |-> c.issue_date, completion_date |-> e.completion_date]

\* the response of PublicCertificateViewSet.verify and verify_by_code
VerifyResponse(certs, code) ==
    IF code = EmptyCode
    THEN [status |-> 400, body |-> <<"error">>]
    ELSE IF VerifyCertificate(certs, code) # {}
    THEN [status |-> 200,
          body |-> <<"valid", PublicCertificate(
                        CHOOSE c \in VerifyCertificate(certs, code) : TRUE)>>]
    ELSE [status |-> 404, body |-> <<"not found or not public">>]

\* PublicCertificateViewSet.verify / verify_by_code
Verify(code) ==
    /\ last' = IF code = EmptyCode THEN "BadRequest"
               ELSE IF VerifyCertificate(certificates, code) # {} THEN "ok"
               ELSE "NotFound"
    /\ UNCHANGED <<media, today, users, courses, enrollments, payments,
                   certificates,
                   nextEnrollmentId, nextPaymentId, nextCertificateId,
                   requests>>

VerificationCodes == 0..(Cardinality(Students) + 1)

\* ------------------------------------------- save() calls that interleave
\* Payment.save and Certificate.save of a new record issue three statements
\* one after the other: the COUNT of the numbering step, the reads of
\* clean, and the INSERT.  Statements of two workers interleave.
NewPayment(r) ==
    [id |-> 0, enrollment |-> r.enrollment, amount |-> r.amount,
     payment_date |-> r.date, receipt_number |-> r.number]

NewCertificate(r) ==
    [id |-> 0, enrollment |-> r.enrollment, certificate_number |-> r.number,
     verification_code |-> r.code, issue_date |-> r.date,
     is_public |-> r.is_public, certificate_file |-> NoFile]

\* Payment.save: self.receipt_number = self.generate_receipt_number()
PaymentSaveCount(w, eid, amount, date) ==
    /\ requests[w].kind = "idle"
    /\ eid \in EnrollmentIds
    /\ nextPaymentId + Cardinality({x \in Workers :
                                      requests[x].kind = "payment"})
           <= MaxPayments
    /\ requests' = [requests EXCEPT ![w] =
           [Idle EXCEPT !.kind = "payment", !.stage = "counted",
                        !.enrollment = eid, !.amount = amount, !.date = date,
                        !.number = GenerateReceiptNumber(payments, today)]]
    /\ UNCHANGED <<media, today, users, courses, enrollments, payments,
                   certificates,
                   nextEnrollmentId, nextPaymentId, nextCertificateId, last>>

\* Payment.save: self.clean()
PaymentSaveClean(w) ==
    /\ requests[w].kind = "payment" /\ requests[w].stage = "counted"
    /\ IF PaymentClean(payments, NewPayment(requests[w]), today) # "ok"
       THEN /\ requests' = [requests EXCEPT ![w] = Idle]
            /\ last' = "ValidationError"
       ELSE /\ requests' = [requests EXCEPT ![w].stage = "validated"]
            /\ UNCHANGED last
    /\ UNCHANGED <<media, today, users, courses, enrollments, payments,
                   certificates,
                   nextEnrollmentId, nextPaymentId, nextCertificateId>>

\* Payment.save: super().save(), the INSERT under the unique constraint;
\* the error is raised to the caller and the request is over
PaymentSaveInsert(w) ==
    /\ requests[w].kind = "payment" /\ requests[w].stage = "validated"
    /\ IF ReceiptUnique(payments, requests[w].number)
       THEN /\ payments' = payments \cup
                  {[NewPayment(requests[w]) EXCEPT !.id = nextPaymentId]}
            /\ nextPaymentId' = nextPaymentId + 1
            /\ last' = "ok"
       ELSE /\ last' = "IntegrityError"
            /\ UNCHANGED <<payments, nextPaymentId>>
    /\ requests' = [requests EXCEPT ![w] = Idle]
    /\ UNCHANGED <<media, today, users, courses, enrollments, certificates,
                   nextEnrollmentId, nextCertificateId>>

\* Certificate.save: the certificate number and the verification code
CertificateSaveCount(w, eid, issue_date, is_public) ==
    /\ requests[w].kind = "idle"
    /\ eid \in EnrollmentIds
    /\ requests' = [requests EXCEPT ![w] =
           [Idle EXCEPT !.kind = "certificate", !.stage = "counted",
                        !.enrollment = eid, !.date = issue_date,
                        !.is_public = is_public,
                        !.number =
                            GenerateCertificateNumber(certificates, today),
                        !.code = NewVerificationCode(certificates)]]
    /\ UNCHANGED <<media, today, users, courses, enrollments, payments,
                   certificates,
                   nextEnrollmentId, nextPaymentId, nextCertificateId, last>>

\* Certificate.save: self.clean()
CertificateSaveClean(w) ==
    /\ requests[w].kind = "certificate" /\ requests[w].stage = "counted"
    /\ IF CertificateClean(certificates, NewCertificate(requests[w])) # "ok"
       THEN /\ requests' = [requests EXCEPT ![w] = Idle]
            /\ last' = "ValidationError"
       ELSE /\ requests' = [requests EXCEPT ![w].stage = "validated"]
            /\ UNCHANGED last
    /\ UNCHANGED <<media, today, users, courses, enrollments, payments,
                   certificates,
                   nextEnrollmentId, nextPaymentId, nextCertificateId>>

\* Certificate.save: super().save(), the INSERT under the unique
\* constraints, and then the PDF of the row this worker inserted
CertificateSaveInsert(w) ==
    /\ requests[w].kind = "certificate" /\ requests[w].stage = "validated"
    /\ IF CertificateUnique(certificates, NewCertificate(requests[w]))
       THEN LET c == GenerateAndAttachPdf(
                         [NewCertificate(requests[w])
                              EXCEPT !.id = nextCertificateId])
            IN /\ certificates' = certificates \cup {c}
               /\ storage' = storage \cup AttachedFiles({c})
               /\ nextCertificateId' = nextCertificateId + 1
               /\ last' = "ok"
       ELSE /\ last' = "IntegrityError"
            /\ UNCHANGED <<certificates, nextCertificateId, storage>>
    /\ requests' = [requests EXCEPT ![w] = Idle]
    /\ UNCHANGED <<pisa_err, today, users, courses, enrollments, payments,
                   nextEnrollmentId, nextPaymentId>>

\* the clock
Tick ==
    /\ today < MaxDay
    /\ today' = today + 1
    /\ last' = "ok"
    /\ UNCHANGED <<media, users, courses, enrollments, payments, certificates,
                   nextEnrollmentId, nextPaymentId, nextCertificateId,
                   requests>>

Init ==
    /\ today = 0
    /\ users = [u \in Users |->
                  [role |-> IF u \in Students THEN "STUDENT" ELSE "ADMIN",
                   is_active |-> TRUE, is_staff |-> u \notin Students]]
    /\ courses = [c \in Courses |-> [price |-> MaxPrice, is_active |-> TRUE,
                                     prerequisites |-> {}]]
    /\ enrollments = {}
    /\ payments = {}
    /\ certificates = {}
    /\ nextEnrollmentId = 1
    /\ nextPaymentId = 1
    /\ nextCertificateId = 1
    /\ requests = [w \in Workers |-> Idle]
    /\ storage = {}
    /\ pisa_err = FALSE
    /\ last = "ok"

\* ------------------------------------------------------- specifications
EnrollmentNext ==
    \/ \E s \in Users, c \in Courses, d \in Days : EnrollmentCreate(s, c, d)
    \/ \E id \in EnrollmentIds, d \in Days \cup {NoDate} :
           EnrollmentComplete(id, d)
    \/ \E id \in EnrollmentIds : EnrollmentCancel(id)
    \/ \E id \in EnrollmentIds, a \in UpdateAttrs : EnrollmentUpdate(id, a)
    \/ \E id \in EnrollmentIds, v \in Users \cup {NoUser} :
           MarkCompleted(id, v)
    \/ \E id \in EnrollmentIds : MarkCancelled(id)
    \/ \E q \in Selections : AdminMarkCompleted(q)
    \/ \E q \in Selections : AdminMarkCancelled(q)

PaymentNext ==
    \/ \E id \in EnrollmentIds, a \in Amounts, d \in Days :
           PaymentCreate(id, a, d)
    \/ \E id \in EnrollmentIds, a \in Amounts, d \in Days :
           PaymentSave(id, a, d)
    \/ \E r \in BulkRequests : PaymentBulkCreate(r)
    \/ \E p \in payments : PaymentUpdate(p.id)
    \/ \E p \in payments : PaymentDelete(p.id)
    \/ \E c \in Courses, a \in Amounts : CourseUpdate(c, a)

CertificateNext ==
    \/ \E id \in EnrollmentIds, d \in Days, pub \in BOOLEAN :
           CertificateCreate(id, d, pub)
    \/ \E id \in EnrollmentIds, d \in Days, pub \in BOOLEAN :
           CertificateSave(id, d, pub)
    \/ \E r \in BulkIssueRequests, d \in Days, pub \in BOOLEAN :
           CertificateBulkIssue(r, d, pub)
    \/ \E c \in certificates : CertificateTogglePublic(c.id)
    \/ \E code \in VerificationCodes : Verify(code)

\* the usernames of the account operations: the stored and the free ones
Accounts == {StaffUser, RegistrarUser} \cup NewUsers

\* the account operations of the API
AccountApiNext ==
    \/ \E caller \in Accounts, name \in NewUsers \cup {RegistrarUser},
          role \in Roles \cup {NoRole}, active \in BOOLEAN :
           UserCreate(caller, name, role, active)
    \/ \E caller, target \in Accounts, a \in UserAttrs :
           UserUpdate(caller, target, a)
    \/ \E caller \in Accounts, role \in Roles \cup {NoRole} :
           ProfileUpdate(caller, role)
    \/ \E caller \in Accounts : ChangePassword(caller)
    \/ \E caller, target \in Accounts : UserActivate(caller, target)
    \/ \E caller, target \in Accounts : UserDeactivate(caller, target)

\* the account operations of the API and the superuser bootstrap
AccountNext ==
    \/ AccountApiNext
    \/ \E name \in NewUsers \cup {RegistrarUser},
          role \in Roles \cup {NoRole}, staff \in BOOLEAN :
           CreateSuperuser(name, role, staff)

\* the whole system, one request at a time
Next ==
    \/ AccountNext
    \/ \E id \in EnrollmentIds : EnrollmentRetrieve(id)
    \/ \E c \in Courses, P \in SUBSET Courses : CourseSetPrerequisites(c, P)
    \/ \E c \in Curriculum, P \in SUBSET Curriculum, a \in Amounts,
          active \in BOOLEAN : CourseCreate(c, a, active, P)
    \/ \E c \in Courses : CourseToggleActive(c)
    \/ EnrollmentNext
    \/ PaymentNext
    \/ CertificateNext
    \/ \E c \in certificates : CertificateRegeneratePdf(c.id)
    \/ \E c \in certificates : CertificateDownload(c.id)
    \/ PisaStatus
    \/ Tick

Spec == Init /\ [][Next]_vars

\* Enrollments alone.
NextEnroll ==
    \/ EnrollmentNext
    \/ Tick

SpecEnroll == Init /\ [][NextEnroll]_vars

\* Payments: one student enrolls and possibly cancels; the payment rules
\* read nothing of an enrollment but its course, its enrollment date and
\* whether its status is CANCELLED.
NextPay ==
    \/ \E c \in Courses : EnrollmentCreate("s1", c, today)
    \/ \E id \in EnrollmentIds : EnrollmentCancel(id)
    \/ PaymentNext
    \/ Tick

SpecPay == Init /\ [][NextPay]_vars

\* Certificates: students enrolled on the current day, the whole
\* enrollment lifecycle and every certificate operation; payments and prices
\* play no part in them.
NextCert ==
    \/ \E s \in Students, c \in Courses : EnrollmentCreate(s, c, today)
    \/ \E id \in EnrollmentIds, d \in Days \cup {NoDate} :
           EnrollmentComplete(id, d)
    \/ \E id \in EnrollmentIds : EnrollmentCancel(id)
    \/ \E id \in EnrollmentIds, a \in UpdateAttrs : EnrollmentUpdate(id, a)
    \/ CertificateNext
    \/ Tick

SpecCert == Init /\ [][NextCert]_vars

\* Issuing: students enroll, complete on the current day or cancel, and
\* public certificates are created in every way the code offers.
NextIssue ==
    \/ \E s \in Students, c \in Courses : EnrollmentCreate(s, c, today)
    \/ \E id \in EnrollmentIds : EnrollmentComplete(id, NoDate)
    \/ \E id \in EnrollmentIds : EnrollmentCancel(id)
    \/ \E id \in EnrollmentIds, d \in Days : CertificateCreate(id, d, TRUE)
    \/ \E id \in EnrollmentIds, d \in Days : CertificateSave(id, d, TRUE)
    \/ \E r \in BulkIssueRequests, d \in Days :
           CertificateBulkIssue(r, d, TRUE)
    \/ Tick

SpecIssue == Init /\ [][NextIssue]_vars

\* Both students have enrolled and completed the course on the first day.
InitCompleted ==
    /\ today = 0
    /\ users = [u \in Users |->
                  [role |-> IF u \in Students THEN "STUDENT" ELSE "ADMIN",
                   is_active |-> TRUE, is_staff |-> u \notin Students]]
    /\ courses = [c \in Courses |-> [price |-> MaxPrice, is_active |-> TRUE,
                                     prerequisites |-> {}]]
    /\ enrollments = {[id |-> IF s = "s1" THEN 1 ELSE 2, student |-> s,
                       course |-> "python", enrollment_date |-> 0,
                       status |-> "COMPLETED", completion_date |-> 0,
                       verified_by |-> StaffUser] :
                          s \in Students}
    /\ payments = {}
    /\ certificates = {}
    /\ nextEnrollmentId = 3
    /\ nextPaymentId = 1
    /\ nextCertificateId = 1
    /\ requests = [w \in Workers |-> Idle]
    /\ storage = {}
    /\ pisa_err = FALSE
    /\ last = "ok"

\* Verification: certificates are created for the completed enrollments,
\* their public flag is toggled, and codes are looked up.
NextVerify ==
    \/ \E id \in EnrollmentIds, d \in Days, pub \in BOOLEAN :
           CertificateCreate(id, d, pub)
    \/ \E c \in certificates : CertificateTogglePublic(c.id)
    \/ \E code \in VerificationCodes : Verify(code)
    \/ Tick

SpecVerify == InitCompleted /\ [][NextVerify]_vars

\* Certificate files: certificates are created for the completed
\* enrollments while the PDF engine works or fails, files are regenerated
\* and downloaded, and the completion date of an enrollment is rewritten.
NextPdf ==
    \/ \E id \in EnrollmentIds, d \in Days : CertificateCreate(id, d, TRUE)
    \/ \E id \in EnrollmentIds, d \in Days : CertificateSave(id, d, TRUE)
    \/ \E r \in BulkIssueRequests, d \in Days :
           CertificateBulkIssue(r, d, TRUE)
    \/ \E c \in certificates : CertificateRegeneratePdf(c.id)
    \/ \E c \in certificates : CertificateDownload(c.id)
    \/ \E a \in {x \in UpdateAttrs : ~ x.has_status /\ x.has_date} :
           EnrollmentUpdate(1, a)
    \/ PisaStatus
    \/ Tick

SpecPdf == InitCompleted /\ [][NextPdf]_vars

\* Interleaved saves: the workers create payments of one unit for the first
\* enrollment and public certificates for both, dated on the current day,
\* statement by statement.
NextConc ==
    \/ \E w \in Workers : PaymentSaveCount(w, 1, 1, today)
    \/ \E w \in Workers : PaymentSaveClean(w)
    \/ \E w \in Workers : PaymentSaveInsert(w)
    \/ \E w \in Workers, id \in EnrollmentIds :
           CertificateSaveCount(w, id, today, TRUE)
    \/ \E w \in Workers : CertificateSaveClean(w)
    \/ \E w \in Workers : CertificateSaveInsert(w)
    \/ Tick

SpecConc == InitCompleted /\ [][NextConc]_vars

\* Racing payments: the workers create payments of any positive amount for
\* the first enrollment, statement by statement, while the clock advances
\* and stored payments are deleted.
NextRace ==
    \/ \E w \in Workers, a \in Amounts \ {0} : PaymentSaveCount(w, 1, a, today)
    \/ \E w \in Workers : PaymentSaveClean(w)
    \/ \E w \in Workers : PaymentSaveInsert(w)
    \/ \E p \in payments : PaymentDelete(p.id)
    \/ Tick

SpecRace == InitCompleted /\ [][NextRace]_vars

\* The catalogue of three courses, none of which requires another yet.
InitCurriculum ==
    /\ today = 0
    /\ users = [u \in Users |->
                  [role |-> IF u \in Students THEN "STUDENT" ELSE "ADMIN",
                   is_active |-> TRUE, is_staff |-> u \notin Students]]
    /\ courses = [c \in Curriculum |->
                    [price |-> MaxPrice, is_active |-> TRUE,
                     prerequisites |-> {}]]
    /\ enrollments = {}
    /\ payments = {}
    /\ certificates = {}
    /\ nextEnrollmentId = 1
    /\ nextPaymentId = 1
    /\ nextCertificateId = 1
    /\ requests = [w \in Workers |-> Idle]
    /\ storage = {}
    /\ pisa_err = FALSE
    /\ last = "ok"

\* Prerequisites: the prerequisites of one course are set, one student
\* enrolls in any course and another in the first course only, enrollments
\* are completed or cancelled and read back.
NextPrereq ==
    \/ \E P \in SUBSET Curriculum : CourseSetPrerequisites("django", P)
    \/ \E c \in Curriculum : EnrollmentCreate("s1", c, today)
    \/ EnrollmentCreate("s2", "basics", today)
    \/ \E id \in EnrollmentIds : EnrollmentComplete(id, NoDate)
    \/ \E id \in EnrollmentIds : EnrollmentCancel(id)
    \/ \E id \in EnrollmentIds : EnrollmentRetrieve(id)

SpecPrereq == InitCurriculum /\ [][NextPrereq]_vars

\* Admission: an administrator makes a student a tutor and back and changes
\* the active flag, two courses are switched on and off and the
\* prerequisites of one course are set, while enrollments are created,
\* completed and cancelled.
NextAdmission ==
    \/ \E s \in {"s1", StaffUser}, c \in Curriculum :
           EnrollmentCreate(s, c, today)
    \/ \E id \in EnrollmentIds : EnrollmentComplete(id, NoDate)
    \/ \E id \in EnrollmentIds : EnrollmentCancel(id)
    \/ \E P \in SUBSET Curriculum : CourseSetPrerequisites("django", P)
    \/ \E c \in {"basics", "django"} : CourseToggleActive(c)
    \/ \E a \in {x \in UserAttrs : x.role \in {NoRole, "STUDENT", "TUTOR"}} :
           UserUpdate(StaffUser, "s1", a)
    \/ UserDeactivate(StaffUser, "s1")
    \/ UserActivate(StaffUser, "s1")

SpecAdmission == InitCurriculum /\ [][NextAdmission]_vars

\* The catalogue holds one course; the others are still to be created.
InitCatalogue ==
    /\ today = 0
    /\ users = [u \in Users |->
                  [role |-> IF u \in Students THEN "STUDENT" ELSE "ADMIN",
                   is_active |-> TRUE, is_staff |-> u \notin Students]]
    /\ courses = [c \in {"basics"} |->
                    [price |-> MaxPrice, is_active |-> TRUE,
                     prerequisites |-> {}]]
    /\ enrollments = {}
    /\ payments = {}
    /\ certificates = {}
    /\ nextEnrollmentId = 1
    /\ nextPaymentId = 1
    /\ nextCertificateId = 1
    /\ requests = [w \in Workers |-> Idle]
    /\ storage = {}
    /\ pisa_err = FALSE
    /\ last = "ok"

\* The catalogue: courses are created with prerequisites, and the
\* prerequisites and the active flag of the stored courses are changed.
NextCatalogue ==
    \/ \E c \in Curriculum, P \in SUBSET Curriculum :
           CourseCreate(c, MaxPrice, TRUE, P)
    \/ \E c \in Curriculum, P \in SUBSET Curriculum :
           CourseSetPrerequisites(c, P)
    \/ \E c \in DOMAIN courses : CourseToggleActive(c)

SpecCatalogue == InitCatalogue /\ [][NextCatalogue]_vars

\* Prerequisite cycles: every course is given at most one prerequisite,
\* which lets three courses require each other in a ring, while one
\* student enrolls, completes and cancels.
NextCycle ==
    \/ \E c \in Curriculum, P \in {Q \in SUBSET Curriculum :
                                       Cardinality(Q) <= 1} :
           CourseSetPrerequisites(c, P)
    \/ \E c \in Curriculum : EnrollmentCreate("s1", c, today)
    \/ \E id \in EnrollmentIds : EnrollmentComplete(id, NoDate)
    \/ \E id \in EnrollmentIds : EnrollmentCancel(id)

SpecCycle == InitCurriculum /\ [][NextCycle]_vars

\* An administrator and a registrar are registered; one username is free.
InitAccounts ==
    /\ today = 0
    /\ users = [u \in {StaffUser, RegistrarUser} |->
                  [role |-> IF u = StaffUser THEN "ADMIN" ELSE "REGISTRAR",
                   is_active |-> TRUE, is_staff |-> TRUE]]
    /\ courses = [c \in Courses |-> [price |-> MaxPrice, is_active |-> TRUE,
                                     prerequisites |-> {}]]
    /\ enrollments = {}
    /\ payments = {}
    /\ certificates = {}
    /\ nextEnrollmentId = 1
    /\ nextPaymentId = 1
    /\ nextCertificateId = 1
    /\ requests = [w \in Workers |-> Idle]
    /\ storage = {}
    /\ pisa_err = FALSE
    /\ last = "ok"

\* Accounts alone.
SpecAccounts == InitAccounts /\ [][AccountNext]_vars

\* Accounts under the operations of the API, without the bootstrap.
SpecAccountsApi == InitAccounts /\ [][AccountApiNext]_vars

\* ------------------------------------------------------- payment claims
SameMonth(d1, d2) == YearOf(d1) = YearOf(d2) /\ MonthOf(d1) = MonthOf(d2)

\* C1: in every reachable state, for every enrollment, the sum of the
\* amounts of its stored payments is at most the price of its course; this
\* is to hold across payment creation, update and deletion and across
\* course updates that change the price.
C1_TotalWithinPrice ==
    \A e \in enrollments : TotalPaid(e.id) <= CoursePrice(e.id)

\* the rules of a payment other than the price rule: the enrollment is not
\* cancelled, the date lies between the enrollment date and the current
\* day, and the receipt number the save would generate is free
OtherPaymentRulesPass(eid, date) ==
    /\ EnrollmentById(eid).status # "CANCELLED"
    /\ EnrollmentById(eid).enrollment_date <= date
    /\ date <= today
    /\ \A x \in payments :
           x.receipt_number # GenerateReceiptNumber(payments, today)

\* C2: saving a payment fails with a validation error and leaves the
\* stored payments unchanged whenever the stored payments of its enrollment
\* (itself excluded) plus its amount exceed the course price; a payment that
\* brings the total exactly to the course price, and breaks no other rule,
\* is stored.
C2_OverPriceRejected ==
    [][/\ \A eid \in EnrollmentIds, a \in Amounts, d \in Days :
              /\ TotalPaid(eid) + a > CoursePrice(eid) =>
                     ((PaymentCreate(eid, a, d) \/ PaymentSave(eid, a, d)) =>
                          /\ last' = "ValidationError"
                          /\ payments' = payments)
              /\ (/\ a > 0
                  /\ TotalPaid(eid) + a = CoursePrice(eid)
                  /\ OtherPaymentRulesPass(eid, d)) =>
                     ((PaymentCreate(eid, a, d) \/ PaymentSave(eid, a, d)) =>
                          /\ last' = "ok"
                          /\ \E p \in payments' \ payments :
                                 /\ p.enrollment = eid
                                 /\ p.amount = a
                                 /\ payments' = payments \cup {p})
       /\ \A p \in payments :
              TotalPaid(p.enrollment) > CoursePrice(p.enrollment) =>
                  (PaymentUpdate(p.id) =>
                       /\ last' = "ValidationError"
                       /\ payments' = payments)
      ]_vars

\* an enrollment is paid exactly in full at the unchanged price, and a
\* request after that was turned down with a validation error
C2_Witness ==
    /\ last = "ValidationError"
    /\ nextPaymentId <= MaxPayments
    /\ \A c \in Courses : courses[c].price = MaxPrice
    /\ \E e \in enrollments :
           /\ PaymentsOf(e.id) # {}
           /\ TotalPaid(e.id) = CoursePrice(e.id)
           /\ e.status # "CANCELLED"

\* C3: a newly created payment receives the receipt number
\* RCP-{year}{month:02d}-{n:05d} where year and month are those of its
\* payment date and n is one plus the number of stored payments whose
\* payment date falls in that same year and month.
C3_ReceiptNumberOfPaymentDate ==
    [][\A eid \in EnrollmentIds, a \in Amounts, d \in Days :
           (/\ PaymentCreate(eid, a, d) \/ PaymentSave(eid, a, d)
            /\ last' = "ok") =>
               \E p \in payments' \ payments :
                   p.receipt_number =
                       FormatReceipt(YearOf(d), MonthOf(d),
                           Cardinality({x \in payments :
                               SameMonth(x.payment_date, d)}) + 1)
      ]_vars

\* ---------------------------------------------------- certificate claims
\* C4: a newly created certificate receives the certificate number
\* CERT-{year}-{n:06d} where year is that of its issue date and n is one
\* plus the number of stored certificates whose issue date falls in that
\* year.
C4_CertificateNumberOfIssueDate ==
    [][\A eid \in EnrollmentIds, d \in Days, pub \in BOOLEAN :
           (/\ \/ CertificateCreate(eid, d, pub)
               \/ CertificateSave(eid, d, pub)
            /\ last' = "ok") =>
               \E c \in certificates' \ certificates :
                   c.certificate_number =
                       FormatCertificate(YearOf(d),
                           Cardinality({x \in certificates :
                               YearOf(x.issue_date) = YearOf(d)}) + 1)
      ]_vars

\* a worker in the middle of a save of the given kind
Saving(w, kind) == requests[w].kind = kind

\* C5: when two creations interleave so that both count the stored rows
\* before either inserts, both compute the same number; the first insert is
\* stored and the later one is turned down by the uniqueness constraint and
\* is not tried again; in no interleaving do two stored payments share a
\* receipt number or two stored certificates a certificate number.
C5_NumbersNeverShared ==
    /\ [](\A p, q \in payments :
              p.receipt_number = q.receipt_number => p = q)
    /\ [](\A c, d \in certificates :
              c.certificate_number = d.certificate_number => c = d)
    /\ [][\A w, v \in Workers :
              /\ (/\ Saving(v, "payment")
                  /\ requests[v].number =
                         GenerateReceiptNumber(payments, today)) =>
                     (PaymentSaveCount(w, 1, 1, today) =>
                          requests'[w].number = requests'[v].number)
              /\ (/\ Saving(v, "certificate")
                  /\ requests[v].number =
                         GenerateCertificateNumber(certificates, today)) =>
                     ((\E id \in EnrollmentIds :
                           CertificateSaveCount(w, id, today, TRUE)) =>
                          requests'[w].number = requests'[v].number)
      ]_vars
    /\ [][\A w \in Workers :
              /\ PaymentSaveInsert(w) =>
                     IF \E x \in payments :
                            x.receipt_number = requests[w].number
                     THEN /\ last' = "IntegrityError"
                          /\ payments' = payments
                          /\ requests'[w] = Idle
                     ELSE /\ last' = "ok"
                          /\ \E x \in payments' \ payments :
                                 x.receipt_number = requests[w].number
              /\ (\E x \in certificates :
                      x.certificate_number = requests[w].number) =>
                     (CertificateSaveInsert(w) =>
                          /\ last' = "IntegrityError"
                          /\ certificates' = certificates
                          /\ requests'[w] = Idle)
      ]_vars

\* one payment is stored, the insert of another was turned down by the
\* uniqueness constraint, and no certificate exists that could have been
\* the cause
C5_Witness ==
    /\ last = "IntegrityError"
    /\ Cardinality(payments) = 1
    /\ certificates = {}
    /\ \A w \in Workers : requests[w] = Idle

\* an enrollment for which no certificate may be issued on the given date
NotCertifiable(eid, issue_date) ==
    LET e == EnrollmentById(eid)
    IN \/ e.status # "COMPLETED"
       \/ e.completion_date = NoDate
       \/ issue_date < e.completion_date

\* C6: creating a certificate for an enrollment whose status is not
\* COMPLETED, or that has no completion date, or with an issue date earlier
\* than the completion date, fails with a validation error and stores no
\* certificate; a bulk issue stores no certificate for such an enrollment.
C6_CertificateNeedsCompletion ==
    [][/\ \A eid \in EnrollmentIds, d \in Days, pub \in BOOLEAN :
              NotCertifiable(eid, d) =>
                  ((\/ CertificateCreate(eid, d, pub)
                    \/ CertificateSave(eid, d, pub)) =>
                       /\ last' = "ValidationError"
                       /\ certificates' = certificates)
       /\ \A r \in BulkIssueRequests, d \in Days, pub \in BOOLEAN :
              (\E i \in 1..Len(r) :
                   r[i] \in EnrollmentIds /\ NotCertifiable(r[i], d)) =>
                  (CertificateBulkIssue(r, d, pub) =>
                       /\ last' \in {"ValidationError", "partial"}
                       /\ \A i \in 1..Len(r) :
                              (/\ r[i] \in EnrollmentIds
                               /\ NotCertifiable(r[i], d)) =>
                                  {c \in certificates' :
                                       c.enrollment = r[i]}
                                      = CertificatesOf(r[i]))
      ]_vars

\* a completed enrollment without a certificate, completed after the first
\* day so that an earlier issue date exists, next to an enrollment that is
\* not completed, after a request was turned down with a validation error
C6_Witness ==
    /\ last = "ValidationError"
    /\ \E e \in enrollments :
           /\ e.status = "COMPLETED"
           /\ e.completion_date > 0
           /\ CertificatesOf(e.id) = {}
    /\ \E e \in enrollments : e.status # "COMPLETED"

\* C7: in every reachable state, every stored certificate belongs to an
\* enrollment whose status is COMPLETED and whose completion date is set,
\* and its issue date is not earlier than that completion date; this is to
\* hold under every enrollment and certificate operation.
C7_CertificateOfCompletedEnrollment ==
    \A c \in certificates :
        LET e == EnrollmentById(c.enrollment)
        IN /\ e.status = "COMPLETED"
           /\ e.completion_date # NoDate
           /\ c.issue_date >= e.completion_date

\* C8: an enrollment has at most one certificate; an attempt to create a
\* second one, alone or in a bulk issue, fails with a validation error and
\* leaves the stored certificates unchanged.
C8_OneCertificatePerEnrollment ==
    /\ [](\A e \in enrollments : Cardinality(CertificatesOf(e.id)) <= 1)
    /\ [][/\ \A eid \in EnrollmentIds, d \in Days, pub \in BOOLEAN :
                 CertificatesOf(eid) # {} =>
                     ((\/ CertificateCreate(eid, d, pub)
                       \/ CertificateSave(eid, d, pub)) =>
                          /\ last' = "ValidationError"
                          /\ certificates' = certificates)
          /\ \A r \in BulkIssueRequests, d \in Days, pub \in BOOLEAN :
                 (\E i \in 1..Len(r) : CertificatesOf(r[i]) # {}) =>
                     (CertificateBulkIssue(r, d, pub) =>
                          /\ last' = "ValidationError"
                          /\ certificates' = certificates)
         ]_vars

\* every enrollment is completed and holds its certificate, and the request
\* after that was turned down with a validation error
C8_Witness ==
    /\ last = "ValidationError"
    /\ enrollments # {}
    /\ \A e \in enrollments :
           e.status = "COMPLETED" /\ Cardinality(CertificatesOf(e.id)) = 1

\* C9: verification by code answers with a certificate exactly when a
\* stored certificate has that code and is public, and then with that
\* certificate; for the code of a certificate that is not public the
\* response is the one given when no certificate has that code.
C9_VerifyOnlyPublic ==
    /\ [](\A code \in VerificationCodes \ {EmptyCode} :
              /\ VerifyResponse(certificates, code).status = 200 <=>
                     \E c \in certificates :
                         c.verification_code = code /\ c.is_public
              /\ \A c \in certificates :
                     (c.verification_code = code /\ c.is_public) =>
                         VerifyResponse(certificates, code).body
                             = <<"valid", PublicCertificate(c)>>
              /\ \A c \in certificates :
                     (c.verification_code = code /\ ~ c.is_public) =>
                         VerifyResponse(certificates, code)
                             = VerifyResponse(certificates \ {c}, code))
    /\ [][\A code \in VerificationCodes \ {EmptyCode} :
              Verify(code) =>
                  (last' = "ok" <=>
                       \E c \in certificates :
                           c.verification_code = code /\ c.is_public)
         ]_vars

\* a public and a non-public certificate are stored and the last
\* verification found nothing
C9_Witness ==
    /\ last = "NotFound"
    /\ \E c \in certificates : c.is_public
    /\ \E c \in certificates : ~ c.is_public

\* ----------------------------------------------------- enrollment claims
\* C10: creating an enrollment for a student and a course that already have
\* an enrollment whose status is not CANCELLED fails with a validation
\* error and stores nothing; at most one enrollment of a student in a
\* course has a status other than CANCELLED.
C10_NoDuplicateActiveEnrollment ==
    /\ [](\A e1, e2 \in enrollments :
              (/\ e1.student = e2.student
               /\ e1.course = e2.course
               /\ e1.status # "CANCELLED"
               /\ e2.status # "CANCELLED") => e1 = e2)
    /\ [][\A s \in Users, c \in Courses, d \in Days :
              (\E x \in enrollments :
                   /\ x.student = s
                   /\ x.course = c
                   /\ x.status # "CANCELLED") =>
                  (EnrollmentCreate(s, c, d) =>
                       /\ last' = "ValidationError"
                       /\ enrollments' = enrollments)
         ]_vars

\* a student holds a completed enrollment and a request was turned down
\* with a validation error while another enrollment could still be stored
C10_Witness ==
    /\ last = "ValidationError"
    /\ \E e \in enrollments : e.status = "COMPLETED"
    /\ \E e \in enrollments : e.status = "CANCELLED"

\* C11: after an enrollment of a student in a course has been cancelled,
\* creating a new enrollment for the same student and course succeeds and
\* is stored; a CANCELLED enrollment does not block re-enrollment.
C11_ReenrollAfterCancel ==
    [][\A s \in Students, c \in Courses, d \in Days :
           (/\ \E x \in enrollments :
                   x.student = s /\ x.course = c /\ x.status = "CANCELLED"
            /\ \A x \in enrollments :
                   (x.student = s /\ x.course = c) => x.status = "CANCELLED") =>
               (EnrollmentCreate(s, c, d) =>
                    /\ last' = "ok"
                    /\ \E e \in enrollments' \ enrollments :
                           e.student = s /\ e.course = c)
      ]_vars

\* the stored enrollment with the given key after the step
EnrollmentAfter(id) == CHOOSE x \in enrollments' : x.id = id

C13_CompletedIsFinal ==
    [][\A e \in enrollments :
           e.status = "COMPLETED" =>
               \E x \in enrollments' : x.id = e.id /\ x.status = "COMPLETED"
      ]_vars

\* every stored enrollment is completed and a complete or cancel action on
\* one of them was answered with Bad Request
C13_Witness ==
    /\ last = "BadRequest"
    /\ enrollments # {}
    /\ \A e \in enrollments : e.status = "COMPLETED"

\* C14: once the status of an enrollment is CANCELLED, no operation
\* (mark_completed, mark_cancelled, the complete and cancel actions, the
\* generic update, the back-office bulk actions) changes it to IN_PROGRESS
\* or COMPLETED.
C14_CancelledIsFinal ==
    [][\A e \in enrollments :
           e.status = "CANCELLED" =>
               \E x \in enrollments' : x.id = e.id /\ x.status = "CANCELLED"
      ]_vars

\* the prerequisites of a course for which a student holds no COMPLETED
\* enrollment
Lacking(student, course) ==
    {p \in courses[course].prerequisites :
        ~ \E x \in enrollments :
              x.student = student /\ x.course = p /\ x.status = "COMPLETED"}

\* the elements of a sequence
Range(seq) == {seq[i] : i \in 1..Len(seq)}

\* C15: check_prerequisites on an enrollment returns (true, []) exactly
\* when every prerequisite of its course has a COMPLETED enrollment of the
\* same student, and otherwise (false, M) where M holds exactly the
\* prerequisites that lack one, each once; IN_PROGRESS and CANCELLED
\* enrollments in a prerequisite do not count.
C15_CheckPrerequisites ==
    /\ [](\A e \in enrollments :
              /\ CheckPrerequisites(e)[1] <=> Lacking(e.student, e.course) = {}
              /\ CheckPrerequisites(e)[1] => CheckPrerequisites(e)[2] = <<>>
              /\ Range(CheckPrerequisites(e)[2]) = Lacking(e.student, e.course)
              /\ Len(CheckPrerequisites(e)[2])
                     = Cardinality(Lacking(e.student, e.course)))
    /\ [][\A id \in EnrollmentIds :
              EnrollmentRetrieve(id) =>
                  (last' = "prerequisites met" <=>
                       Lacking(EnrollmentById(id).student,
                               EnrollmentById(id).course) = {})
         ]_vars

\* an enrollment in the course with two prerequisites was read back with
\* prerequisites missing while the student holds one prerequisite completed
\* and the other cancelled, and the other student completed that one
C15_Witness ==
    /\ last = "prerequisites missing"
    /\ courses["django"].prerequisites = {"basics", "python"}
    /\ \E e \in enrollments : e.student = "s1" /\ e.course = "django"
    /\ \E e \in enrollments :
           e.student = "s1" /\ e.course = "python" /\ e.status = "COMPLETED"
    /\ \E e \in enrollments :
           e.student = "s1" /\ e.course = "basics" /\ e.status = "CANCELLED"
    /\ \E e \in enrollments :
           e.student = "s2" /\ e.course = "basics" /\ e.status = "COMPLETED"

\* C16: the enrollment create operation stores a new enrollment only if, at
\* that moment, the student has role STUDENT and is active, the course is
\* active and the student holds a COMPLETED enrollment in every prerequisite
\* of the course; otherwise it fails with a validation error and stores
\* nothing.
C16_CreateOnlyIfEligible ==
    [][\A s \in Users, c \in Curriculum, d \in Days :
           (~ (/\ users[s].role = "STUDENT"
               /\ users[s].is_active
               /\ courses[c].is_active
               /\ Lacking(s, c) = {})) =>
               (EnrollmentCreate(s, c, d) =>
                    /\ last' = "ValidationError"
                    /\ enrollments' = enrollments)
      ]_vars

\* the student holds an enrollment in the course with two prerequisites and
\* has completed both, the account is inactive since, a course is switched
\* off, and the last request was turned down
C16_Witness ==
    /\ last = "ValidationError"
    /\ ~ users["s1"].is_active
    /\ \E c \in Curriculum : ~ courses[c].is_active
    /\ courses["django"].prerequisites = {"basics", "python"}
    /\ \E e \in enrollments : e.student = "s1" /\ e.course = "django"
    /\ Lacking("s1", "django") = {}

AcquiresStaffRole(u) ==
    /\ u \in DOMAIN users => users[u].role \notin StaffRoles
    /\ u \in DOMAIN users'
    /\ users'[u].role \in StaffRoles

\* C18: account creation by a REGISTRAR with role ADMIN, REGISTRAR,
\* ACADEMIC or FINANCE fails validation and creates no account, while
\* creation with role STUDENT or TUTOR succeeds; over any sequence of
\* account create, account update and profile update operations, an account
\* acquires a staff role only through an operation whose caller has role
\* ADMIN.
C18_StaffRolesByAdminOnly ==
    /\ [][\A caller \in Accounts, name \in NewUsers, role \in Roles,
            active \in BOOLEAN :
              (/\ Authenticated(caller)
               /\ users[caller].role = "REGISTRAR"
               /\ name \notin DOMAIN users
               /\ UserCreate(caller, name, role, active)) =>
                  IF role \in StaffRoles
                  THEN /\ last' = "ValidationError"
                       /\ users' = users
                  ELSE /\ last' = "ok"
                       /\ DOMAIN users' = DOMAIN users \cup {name}
                       /\ users'[name].role = role
                       /\ \A u \in DOMAIN users : users'[u] = users[u]
         ]_vars
    /\ [][\A u \in Accounts :
              AcquiresStaffRole(u) =>
                  \E caller \in DOMAIN users :
                      /\ users[caller].role = "ADMIN"
                      /\ \/ \E role \in StaffRoles, active \in BOOLEAN :
                                UserCreate(caller, u, role, active)
                         \/ \E a \in UserAttrs : UserUpdate(caller, u, a)
         ]_vars

\* a registrar was refused the creation of a staff account while an
\* account created since the start holds a staff role
C18_Witness ==
    /\ last = "ValidationError"
    /\ \E u \in NewUsers \cap DOMAIN users : users[u].role = "ACADEMIC"

PassesAlone(item) ==
    /\ item.enrollment_id \in EnrollmentIds
    /\ ~ item.dated
    /\ PaymentModelCreate(payments, nextPaymentId, item.enrollment_id,
                          item.amount, today, today).result = "ok"

\* C20: bulk_create of payments with a well-formed list creates every item
\* that individually passes validation and reports the failing items in the
\* errors list, responding with status 201; an invalid item never prevents
\* the creation of the valid items of the same request.  Stated for the
\* first valid item of the list, which no earlier item of the request can
\* have affected.
C20_BulkCreatePartialSuccess ==
    [][\A r \in BulkRequests :
           PaymentBulkCreate(r) =>
               /\ last' \in {"ok", "partial"}
               /\ \A i \in 1..Len(r) :
                      (/\ PassesAlone(r[i])
                       /\ \A j \in 1..(i - 1) : ~ PassesAlone(r[j])) =>
                          \E p \in payments' \ payments :
                              /\ p.enrollment = r[i].enrollment_id
                              /\ p.amount = r[i].amount
      ]_vars

\* ------------------------------------------- payments and cancellation
\* C21: no payment creation path (the API's single create, bulk_create, or a
\* direct save of a new record) stores a payment for an enrollment whose
\* status is CANCELLED at the time of the creation.
C21_NoPaymentForCancelled ==
    [][\A p \in payments' \ payments :
           EnrollmentById(p.enrollment).status # "CANCELLED"
      ]_vars

\* -------------------------------------------------- certificate file claims
\* a certificate that Certificate.save accepts for the enrollment on the
\* given date: the enrollment is completed on or before that date, has no
\* certificate yet, and the number the save generates is free
Certifiable(eid, issue_date) ==
    /\ ~ NotCertifiable(eid, issue_date)
    /\ CertificatesOf(eid) = {}
    /\ \A c \in certificates :
           c.certificate_number
               # GenerateCertificateNumber(certificates, today)

\* C22: if PDF generation fails while a new, valid certificate is being
\* created, the creation still succeeds: the certificate row is stored with
\* its certificate number and verification code and without an attached
\* file, and no error reaches the caller.
C22_CreationSurvivesPdfFailure ==
    [][\A eid \in EnrollmentIds, d \in Days :
           (/\ pisa_err
            /\ Certifiable(eid, d)
            /\ \/ CertificateCreate(eid, d, TRUE) /\ d <= today
               \/ CertificateSave(eid, d, TRUE)) =>
               /\ last' = "ok"
               /\ \E c \in certificates' :
                      /\ certificates' = certificates \cup {c}
                      /\ c \notin certificates
                      /\ c.enrollment = eid
                      /\ c.certificate_number
                             = GenerateCertificateNumber(certificates, today)
                      /\ c.verification_code # EmptyCode
                      /\ c.verification_code \notin
                             {x.verification_code : x \in certificates}
                      /\ c.certificate_file = NoFile
               /\ storage' = storage
      ]_vars

\* a certificate is stored without a file next to one with a file, after a
\* creation that succeeded while the PDF engine reported an error
C22_Witness ==
    /\ last = "ok"
    /\ pisa_err
    /\ \E c \in certificates : c.certificate_file = NoFile
    /\ \E c \in certificates : c.certificate_file # NoFile

\* C23: for every stored certificate, in every reachable state (whatever
\* enrollment updates happened after the issuance), toggle_public succeeds
\* and inverts the stored is_public flag, so that the public verification
\* of its code succeeds exactly when the flag is true after the toggle.
C23_TogglePublicAlwaysSucceeds ==
    [][\A c \in certificates :
           CertificateTogglePublic(c.id) =>
               /\ last' = "ok"
               /\ \E n \in certificates' :
                      /\ n = [c EXCEPT !.is_public = ~ c.is_public]
                      /\ certificates' = (certificates \ {c}) \cup {n}
                      /\ (VerifyCertificate(certificates',
                                            c.verification_code) # {})
                             <=> n.is_public
      ]_vars

\* ------------------------------------------------------- catalogue claims
\* an update of the prerequisites of c that would make c its own
\* prerequisite or close a cycle of two courses
ClosesCycle(c, P) ==
    \/ c \in P
    \/ \E p \in P \cap DOMAIN courses : c \in courses[p].prerequisites

\* C24: after any sequence of course create and course update operations
\* through the API, no course is its own prerequisite and no two courses
\* are prerequisites of each other; an update that would introduce either
\* is rejected and leaves the prerequisite relation unchanged.
C24_NoDirectPrerequisiteCycle ==
    /\ [](\A a \in DOMAIN courses :
              /\ a \notin courses[a].prerequisites
              /\ \A b \in courses[a].prerequisites :
                     a \notin courses[b].prerequisites)
    /\ [][\A c \in DOMAIN courses, P \in SUBSET Curriculum :
              (ClosesCycle(c, P) /\ CourseSetPrerequisites(c, P)) =>
                  /\ last' = "ValidationError"
                  /\ \A x \in DOMAIN courses :
                         courses'[x].prerequisites = courses[x].prerequisites
         ]_vars

\* the three courses are stored, one requires another which requires the
\* third, and an update has just been rejected
C24_Witness ==
    /\ last = "ValidationError"
    /\ DOMAIN courses = Curriculum
    /\ \E a, b, c \in Curriculum :
           /\ a \in courses[b].prerequisites
           /\ b \in courses[c].prerequisites

\* ------------------------------------------------- roles and enrollments
\* C25: in every state reachable through any sequence of account operations
\* (create, role update) and enrollment operations, the student of every
\* stored enrollment has the role STUDENT; creating an enrollment for a
\* user whose role is not STUDENT fails.
C25_EnrolledAreStudents ==
    /\ [](\A e \in enrollments : users[e.student].role = "STUDENT")
    /\ [][\A s \in DOMAIN users, c \in DOMAIN courses, d \in Days :
              (users[s].role # "STUDENT" /\ EnrollmentCreate(s, c, d)) =>
                  /\ last' # "ok"
                  /\ enrollments' = enrollments
         ]_vars

\* ------------------------------------------------------ numbering claims
\* C26: in the absence of concurrent writers, for any sequence of payment
\* creations (with any admissible payment date), payment deletions,
\* certificate issuances (with any admissible issue date) and enrollment
\* deletions, the receipt number or certificate number generated for a new
\* record differs from the number of every stored record, so a creation
\* that passes validation is never rejected by the uniqueness constraint.
C26_GeneratedNumberIsFree ==
    /\ \A p \in payments :
           p.receipt_number # GenerateReceiptNumber(payments, today)
    /\ \A c \in certificates :
           c.certificate_number
               # GenerateCertificateNumber(certificates, today)

\* C27: when two payment creations for the same enrollment run
\* concurrently, each reading the enrollment's existing payment total
\* before either one inserts its row, the sum of the stored payments of
\* that enrollment still never exceeds the course price.
C27_ConcurrentTotalWithinPrice ==
    \A e \in enrollments : TotalPaid(e.id) <= CoursePrice(e.id)

\* C28: no operation of the account API (deactivate, generic update or
\* partial update, profile update) invoked by a caller on their own account
\* ever sets that account's is_active flag to false.
C28_NoSelfDeactivation ==
    [][\A u \in DOMAIN users :
           (\/ UserDeactivate(u, u)
            \/ \E a \in UserAttrs : UserUpdate(u, u, a)
            \/ \E role \in Roles \cup {NoRole} : ProfileUpdate(u, role)) =>
               (users[u].is_active => users'[u].is_active)
      ]_vars

\* ------------------------------------------------- prerequisite cycles
\* the courses K form a prerequisite cycle of three or more courses: they
\* can be put in a ring in which every course requires the next one
PrerequisiteCycle(K) ==
    LET n == Cardinality(K)
    IN /\ n >= 3
       /\ \E ring \in [1..n -> K] :
              /\ \A i, j \in 1..n : ring[i] = ring[j] => i = j
              /\ \A i \in 1..n :
                     ring[(i % n) + 1] \in courses[ring[i]].prerequisites

\* C29: while a set of courses forms a prerequisite cycle, a student who
\* has no COMPLETED enrollment in any course of the cycle cannot obtain an
\* enrollment in any course of the cycle through the enrollment create
\* operation, whatever sequence of enrollment create, complete and cancel
\* operations is performed.
C29_CycleBlocksEnrollment ==
    [][\A K \in SUBSET (DOMAIN courses), s \in Students :
           (/\ PrerequisiteCycle(K)
            /\ ~ \E e \in enrollments :
                     /\ e.student = s
                     /\ e.course \in K
                     /\ e.status = "COMPLETED") =>
               \A e \in enrollments' :
                   (e.student = s /\ e.course \in K) => e.id \in EnrollmentIds
      ]_vars

\* the three courses form a cycle, the student holds an enrollment in one
\* of them that is in progress and none that is completed, and a request
\* has just been refused
C29_Witness ==
    /\ PrerequisiteCycle(Curriculum)
    /\ last = "ValidationError"
    /\ \E e \in enrollments : e.student = "s1" /\ e.status = "IN_PROGRESS"
    /\ ~ \E e \in enrollments : e.student = "s1" /\ e.status = "COMPLETED"

\* C30: if PDF generation fails during regenerate_pdf on a certificate that
\* already has an attached file, the operation reports failure and the
\* certificate keeps its previously attached file, which remains
\* downloadable: a failed regeneration leaves the certificate's stored file
\* unchanged.
C30_FailedRegenerationKeepsFile ==
    [][\A c \in certificates :
           (/\ pisa_err
            /\ c.certificate_file # NoFile
            /\ c.certificate_file \in storage
            /\ CertificateRegeneratePdf(c.id)) =>
               /\ last' # "ok"
               /\ c \in certificates'
               /\ c.certificate_file \in storage'
      ]_vars
====
